---- MODULE Spec2Model ----
(***************************************************************************)
(* Model of the persistence layer of the library management program       *)
(* (class Database in src/lib6.py): the four SQLite tables users, books,  *)
(* members and transactions and their AUTOINCREMENT counters.             *)
(*                                                                         *)
(* Every Database method is an operator from the store before the call    *)
(* and the arguments to the result of the call: what it returns (ok,      *)
(* msg), whether it raised instead of returning, and the store it leaves  *)
(* behind.  A statement that raises IntegrityError changes nothing, and   *)
(* what was committed before it stays.  One action per method applies    *)
(* the operator to the current store.                                     *)
(*                                                                         *)
(* Representation: a table is a function from the ids of its rows to the  *)
(* rows.  SQL NULL / Python None is the string "NULL" in text columns and *)
(* the day number 0 in date columns (dates are day numbers >= 1).  Id 0   *)
(* stands for "no row" (AUTOINCREMENT ids start at 1).                    *)
(***************************************************************************)
EXTENDS Integers, FiniteSets, Sequences, TLC

\* users, books, members, transactions: the tables.  seq: sqlite_sequence,
\* the last id AUTOINCREMENT gave out in each table (ids are never reused).
\* mirror: for each member, the id of the user account add_member created
\* for it (history, not stored by the program).  current_user: the session
\* of the application (LibraryApp.current_user), NoSession when logged out.
VARIABLES users, books, members, transactions, seq, mirror, current_user

vars == <<users, books, members, transactions, seq, mirror, current_user>>

tables == <<users, books, members, transactions>>

\* The store as one value: the four tables and sqlite_sequence.
DB == [users |-> users, books |-> books, members |-> members,
       transactions |-> transactions, seq |-> seq]

\* ---------------------------------------------------------------- bounds
MaxUserId == 2
MaxBookId == 2
MaxMemberId == 2
MaxTxId == 2
MaxDay == 1
MaxCount == 1
LoanMembers == 1
MemberBooks == 1
MemberTxs == 1

\* ------------------------------------------------------ program constants
DEFAULT_ISSUE_DAYS == 14

\* ---------------------------------------------------------- representation
NULL == "NULL"
NullDate == 0
NoRow == 0
\* self.current_user = None (line 268)
NoSession == [id |-> NoRow, username |-> NULL, role |-> NULL]

\* ----------------------------------------------------------- input values
\* Text the callers pass: the forms strip their fields and reject an empty
\* name, email or title before calling (lines 446, 543, 571), and the
\* membership type comes from a fixed list (line 499), so the CHECK
\* constraints on role and membership_type never fail.
Usernames == {"admin", "a", "b"}
LoanUsernames == {"admin", "a"}
Passwords == {"p", "q"}
Roles == {"user"}
Profile1 == [name |-> "n1", membership_type |-> "regular", membership_expiry |-> "2030-01-01"]
Profile2 == [name |-> "n2", membership_type |-> NULL, membership_expiry |-> NULL]
Profiles == {Profile1, Profile2}
BookText1 == [title |-> "Dune", author |-> "Herbert", genre |-> "Sci-Fi"]
BookText2 == [title |-> "Emma", author |-> "Austen", genre |-> "Novel"]
BookTexts == {BookText1, BookText2}
Counts == 0..MaxCount
UserIds == 1..MaxUserId
BookIds == 1..MaxBookId
MemberIds == 1..MaxMemberId
TxIds == 1..MaxTxId
Days == 1..MaxDay
\* search of list_books: None, nothing, and terms typed into the search box.
SearchTerms == {NULL, "", "Dun", "dune", "ten", "_", "x"}
\* for_username of list_transactions: a name, the empty string, or a name
\* no account has.
ForUsernames == Usernames \cup {"", "zed"}

\* ---------------------------------------------------------------- helpers
\* A table without the rows whose ids are in S (DELETE).
Without(t, S) == [i \in DOMAIN t \ S |-> t[i]]

\* A table with one more row (INSERT).
With(t, id, row) == [i \in DOMAIN t \cup {id} |-> IF i = id THEN row ELSE t[i]]

\* What a call that returns leaves: the pair it returns (ok, and msg or the
\* new row's id) and the store.
Returns(ok, msg, db) ==
    [ok |-> ok, msg |-> msg, raised |-> FALSE, lastrowid |-> NoRow, db |-> db]

Inserted(id, db) ==
    [ok |-> TRUE, msg |-> NULL, raised |-> FALSE, lastrowid |-> id, db |-> db]

\* What a call that ends in an uncaught sqlite3.IntegrityError leaves.
Raises(db) ==
    [ok |-> FALSE, msg |-> NULL, raised |-> TRUE, lastrowid |-> NoRow, db |-> db]

\* ------------------------------------------------------------------ users
\* SELECT * FROM users WHERE username=? : the id of the row, or NoRow.
get_user_by_username(db, username) ==
    IF \E u \in DOMAIN db.users : db.users[u].username = username
    THEN CHOOSE u \in DOMAIN db.users : db.users[u].username = username
    ELSE NoRow

\* SELECT * FROM users WHERE username=? AND password=?
authenticate(db, username, password) ==
    IF \E u \in DOMAIN db.users :
          db.users[u].username = username /\ db.users[u].password = password
    THEN CHOOSE u \in DOMAIN db.users :
          db.users[u].username = username /\ db.users[u].password = password
    ELSE NoRow

\* Faulty variant: the refused INSERT replaces the password of the row.
add_userOverwrites(db, username, password, role) ==
    IF get_user_by_username(db, username) # NoRow
    THEN Returns(FALSE, "Username already exists",
                 [db EXCEPT !.users[get_user_by_username(db, username)].password = password])
    ELSE LET id == db.seq.users + 1 IN
         Inserted(id, [db EXCEPT !.users = With(@, id, [username |-> username,
                                                        password |-> password,
                                                        role |-> role]),
                                 !.seq.users = id])

\* users.username is UNIQUE: the INSERT raises IntegrityError when taken.
add_user(db, username, password, role) ==
    IF get_user_by_username(db, username) # NoRow
    THEN Returns(FALSE, "Username already exists", db)
    ELSE LET id == db.seq.users + 1 IN
         Inserted(id, [db EXCEPT !.users = With(@, id, [username |-> username,
                                                        password |-> password,
                                                        role |-> role]),
                                 !.seq.users = id])

\* ------------------------------------------------------------------ books
add_book(db, text, available) ==
    LET id == db.seq.books + 1 IN
    Inserted(id, [db EXCEPT !.books = With(@, id, [title |-> text.title,
                                                   author |-> text.author,
                                                   genre |-> text.genre,
                                                   available_count |-> available]),
                            !.seq.books = id])

\* The characters of the texts of the model (a string is not taken apart
\* by the model checker, so each text is listed with its characters).
Chars(text) ==
    CASE text = "Dune" -> <<"D", "u", "n", "e">>
      [] text = "Herbert" -> <<"H", "e", "r", "b", "e", "r", "t">>
      [] text = "Sci-Fi" -> <<"S", "c", "i", "-", "F", "i">>
      [] text = "Emma" -> <<"E", "m", "m", "a">>
      [] text = "Austen" -> <<"A", "u", "s", "t", "e", "n">>
      [] text = "Novel" -> <<"N", "o", "v", "e", "l">>
      [] text = "dune" -> <<"d", "u", "n", "e">>
      [] text = "Dun" -> <<"D", "u", "n">>
      [] text = "ten" -> <<"t", "e", "n">>
      [] text = "_" -> <<"_">>
      [] text = "x" -> <<"x">>
      [] text = "" -> <<>>

UpperCase == <<"A", "B", "C", "D", "E", "F", "G", "H", "I", "J", "K", "L", "M",
               "N", "O", "P", "Q", "R", "S", "T", "U", "V", "W", "X", "Y", "Z">>

LowerCase == <<"a", "b", "c", "d", "e", "f", "g", "h", "i", "j", "k", "l", "m",
               "n", "o", "p", "q", "r", "s", "t", "u", "v", "w", "x", "y", "z">>

\* SQLite's LIKE compares ASCII letters without regard to case.
Fold(c) ==
    IF \E i \in DOMAIN UpperCase : UpperCase[i] = c
    THEN LowerCase[CHOOSE i \in DOMAIN UpperCase : UpperCase[i] = c]
    ELSE c

\* text LIKE pattern: % stands for any characters, _ for any one character.
RECURSIVE Like(_, _)
Like(txt, pat) ==
    IF pat = <<>> THEN txt = <<>>
    ELSE IF Head(pat) = "%"
         THEN Like(txt, Tail(pat)) \/ (txt # <<>> /\ Like(Tail(txt), pat))
    ELSE IF txt = <<>> THEN FALSE
    ELSE IF Head(pat) = "_" \/ Fold(Head(pat)) = Fold(Head(txt))
         THEN Like(Tail(txt), Tail(pat))
    ELSE FALSE

\* if search: None and the empty string select every book; otherwise
\* like = f"%{search}%" is matched with title, author and genre.
list_books(db, search) ==
    LET like == <<"%">> \o Chars(search) \o <<"%">> IN
    {[id |-> b] @@ db.books[b] : b \in
        {b \in DOMAIN db.books :
            \/ search \in {NULL, ""}
            \/ Like(Chars(db.books[b].title), like)
            \/ Like(Chars(db.books[b].author), like)
            \/ Like(Chars(db.books[b].genre), like)}}

\* UPDATE ... WHERE id=? touches no row when the id is unknown.
update_book(db, book_id, text, available) ==
    Returns(TRUE, NULL,
        IF book_id \in DOMAIN db.books
        THEN [db EXCEPT !.books[book_id] = [title |-> text.title, author |-> text.author,
                                            genre |-> text.genre,
                                            available_count |-> available]]
        ELSE db)

\* Faulty variant: the query counts the returned loans.
ActiveIssuesOfBookReturned(db, book_id) ==
    Cardinality({t \in DOMAIN db.transactions :
                    db.transactions[t].book_id = book_id /\ db.transactions[t].returned = 1})

\* SELECT COUNT(*) FROM transactions WHERE book_id=? AND returned=0
ActiveIssuesOfBook(db, book_id) ==
    Cardinality({t \in DOMAIN db.transactions :
                    db.transactions[t].book_id = book_id /\ db.transactions[t].returned = 0})

\* Faulty variant: the loans of the book are deleted with it.
delete_bookCascade(db, book_id) ==
    IF ActiveIssuesOfBook(db, book_id) > 0
    THEN Returns(FALSE, "Cannot delete book with active issues", db)
    ELSE Returns(TRUE, NULL,
            [db EXCEPT !.books = Without(@, {book_id}),
                       !.transactions = Without(@, {t \in DOMAIN @ : @[t].book_id = book_id})])

delete_book(db, book_id) ==
    IF ActiveIssuesOfBook(db, book_id) > 0
    THEN Returns(FALSE, "Cannot delete book with active issues", db)
    ELSE Returns(TRUE, NULL, [db EXCEPT !.books = Without(@, {book_id})])

\* ---------------------------------------------------------------- members
\* members.email is UNIQUE: some row other than `except` has the email.
EmailTaken(db, email, except) ==
    \E m \in DOMAIN db.members \ {except} : db.members[m].email = email

MemberRow(profile, email, password) ==
    [name |-> profile.name, email |-> email, password |-> password,
     membership_type |-> profile.membership_type,
     membership_expiry |-> profile.membership_expiry]

\* The member INSERT is committed on its own (line 152); the result of the
\* add_user call (line 156) is dropped.  user_id is that call's lastrowid.
add_member(db, profile, email, password) ==
    IF EmailTaken(db, email, NoRow)
    THEN [user_ok |-> TRUE, user_id |-> NoRow] @@
         Returns(FALSE, "Member email already exists", db)
    ELSE LET id == db.seq.members + 1
             db1 == [db EXCEPT !.members = With(@, id, MemberRow(profile, email, password)),
                               !.seq.members = id]
             u == add_user(db1, email, password, "user")
         IN [user_ok |-> u.ok, user_id |-> u.lastrowid] @@
            [ok |-> TRUE, msg |-> NULL, raised |-> FALSE, lastrowid |-> id, db |-> u.db]

\* Faulty variant: users.username without its UNIQUE constraint.
RenameRaisesNever(db, email, old_email) == FALSE

\* UPDATE users SET username=?, password=? WHERE username=?  (line 173)
\* raises IntegrityError when a row matches and another row has the new
\* name.
RenameRaises(db, email, old_email) ==
    /\ get_user_by_username(db, old_email) # NoRow
    /\ get_user_by_username(db, email) # NoRow

RenameUser(db, email, password, old_email) ==
    [db EXCEPT !.users =
        [u \in DOMAIN @ |->
            IF @[u].username = old_email
            THEN [@[u] EXCEPT !.username = email, !.password = password]
            ELSE @[u]]]

\* UPDATE users SET password=? WHERE username=?  (line 175)
ResyncPassword(db, email, password) ==
    [db EXCEPT !.users =
        [u \in DOMAIN @ |->
            IF @[u].username = email THEN [@[u] EXCEPT !.password = password] ELSE @[u]]]

\* The member UPDATE is committed on its own (line 168) before the users
\* table is touched.  old_email is None when no member has the id; emails
\* are never empty, so "if old_email" asks whether the member exists.
update_member(db, member_id, profile, email, password) ==
    LET old_email == IF member_id \in DOMAIN db.members
                     THEN db.members[member_id].email ELSE NULL
    IN
    IF member_id \in DOMAIN db.members /\ EmailTaken(db, email, member_id)
    THEN Returns(FALSE, "Email already used by another member", db)
    ELSE LET db1 == IF member_id \in DOMAIN db.members
                    THEN [db EXCEPT !.members[member_id] = MemberRow(profile, email, password)]
                    ELSE db
         IN IF old_email # NULL /\ old_email # email
            THEN IF RenameRaises(db1, email, old_email)
                 THEN Raises(db1)
                 ELSE Returns(TRUE, NULL, RenameUser(db1, email, password, old_email))
            ELSE Returns(TRUE, NULL, ResyncPassword(db1, email, password))

\* SELECT COUNT(*) FROM transactions WHERE user_id=(SELECT id FROM users
\*   WHERE username=(SELECT email FROM members WHERE id=?)) AND returned=0
\* A scalar subquery without a row is NULL, and nothing equals NULL.
ActiveIssuesOfMember(db, member_id) ==
    IF member_id \notin DOMAIN db.members THEN 0
    ELSE LET uid == get_user_by_username(db, db.members[member_id].email) IN
         IF uid = NoRow THEN 0
         ELSE Cardinality({t \in DOMAIN db.transactions :
                              db.transactions[t].user_id = uid
                              /\ db.transactions[t].returned = 0})

\* Faulty variant: the user account is left behind.
delete_memberKeepsUser(db, member_id) ==
    IF ActiveIssuesOfMember(db, member_id) > 0
    THEN Returns(FALSE, "Member has active issued books", db)
    ELSE Returns(TRUE, NULL, [db EXCEPT !.members = Without(@, {member_id})])

delete_member(db, member_id) ==
    IF ActiveIssuesOfMember(db, member_id) > 0
    THEN Returns(FALSE, "Member has active issued books", db)
    ELSE Returns(TRUE, NULL,
            [db EXCEPT !.users = IF member_id \in DOMAIN db.members
                                 THEN Without(@, {u \in DOMAIN @ :
                                          @[u].username = db.members[member_id].email})
                                 ELSE @,
                       !.members = Without(@, {member_id})])

\* ----------------------------------------------------------- transactions
\* Faulty variant: the count is not tested.
NoCopiesNever(db, book_id) == FALSE

\* Faulty variant: the test misses the book with no copy left.
NoCopiesStrict(db, book_id) == db.books[book_id].available_count < 0

\* if b["available_count"] <= 0  (line 215)
NoCopies(db, book_id) == db.books[book_id].available_count <= 0

\* Faulty variant: the UPDATE without its WHERE clause.
TakeCopyNoWhere(db, book_id) ==
    [db EXCEPT !.books = [b \in DOMAIN @ |-> [@[b] EXCEPT !.available_count = @ - 1]]]

\* UPDATE books SET available_count=available_count-1 WHERE id=?  (line 221)
TakeCopy(db, book_id) ==
    [db EXCEPT !.books =
        [b \in DOMAIN @ |->
            IF b = book_id THEN [@[b] EXCEPT !.available_count = @ - 1] ELSE @[b]]]

\* Faulty variant: the UPDATE without its WHERE clause.
GiveCopyAll(db, book_id) ==
    [db EXCEPT !.books = [b \in DOMAIN @ |-> [@[b] EXCEPT !.available_count = @ + 1]]]

\* Faulty variant: the UPDATE is missing.
GiveCopyNone(db, book_id) == db

\* UPDATE books SET available_count=available_count+1 WHERE id=?  (line 235)
GiveCopy(db, book_id) ==
    [db EXCEPT !.books =
        [b \in DOMAIN @ |->
            IF b = book_id THEN [@[b] EXCEPT !.available_count = @ + 1] ELSE @[b]]]

\* Faulty variant: the test reads the wrong value.
AlreadyReturnedWrong(db, trans_id) == db.transactions[trans_id].returned > 1

\* if tx["returned"]  (line 231)
AlreadyReturned(db, trans_id) == db.transactions[trans_id].returned # 0

\* Faulty variant: the book is looked up before the user.
issue_bookBookFirst(db, username, book_id, days, today) ==
    LET user == get_user_by_username(db, username) IN
    IF book_id \notin DOMAIN db.books THEN Returns(FALSE, "Book not found", db)
    ELSE IF user = NoRow THEN Returns(FALSE, "User not found", db)
    ELSE IF NoCopies(db, book_id) THEN Returns(FALSE, "No copies available", db)
    ELSE LET id == db.seq.transactions + 1
             db1 == [db EXCEPT !.transactions = With(@, id,
                            [user_id |-> user, book_id |-> book_id,
                             issue_date |-> today, due_date |-> today + days,
                             return_date |-> NullDate, returned |-> 0]),
                               !.seq.transactions = id]
         IN [ok |-> TRUE, msg |-> NULL, raised |-> FALSE, lastrowid |-> id,
             db |-> TakeCopy(db1, book_id)]

\* today is datetime.date.today() at the time of the call.
issue_book(db, username, book_id, days, today) ==
    LET user == get_user_by_username(db, username) IN
    IF user = NoRow THEN Returns(FALSE, "User not found", db)
    ELSE IF book_id \notin DOMAIN db.books THEN Returns(FALSE, "Book not found", db)
    ELSE IF NoCopies(db, book_id) THEN Returns(FALSE, "No copies available", db)
    ELSE LET id == db.seq.transactions + 1
             db1 == [db EXCEPT !.transactions = With(@, id,
                            [user_id |-> user, book_id |-> book_id,
                             issue_date |-> today, due_date |-> today + days,
                             return_date |-> NullDate, returned |-> 0]),
                               !.seq.transactions = id]
         IN [ok |-> TRUE, msg |-> NULL, raised |-> FALSE, lastrowid |-> id,
             db |-> TakeCopy(db1, book_id)]

\* Faulty variant: a second return stamps the date again before it fails.
return_bookRestamps(db, trans_id, today) ==
    IF trans_id \notin DOMAIN db.transactions
    THEN Returns(FALSE, "Transaction not found", db)
    ELSE IF AlreadyReturned(db, trans_id)
         THEN Returns(FALSE, "Already returned",
                      [db EXCEPT !.transactions[trans_id].return_date = today])
    ELSE LET db1 == [db EXCEPT !.transactions[trans_id].return_date = today,
                               !.transactions[trans_id].returned = 1]
         IN Returns(TRUE, NULL, GiveCopy(db1, db.transactions[trans_id].book_id))

return_book(db, trans_id, today) ==
    IF trans_id \notin DOMAIN db.transactions
    THEN Returns(FALSE, "Transaction not found", db)
    ELSE IF AlreadyReturned(db, trans_id) THEN Returns(FALSE, "Already returned", db)
    ELSE LET db1 == [db EXCEPT !.transactions[trans_id].return_date = today,
                               !.transactions[trans_id].returned = 1]
         IN Returns(TRUE, NULL, GiveCopy(db1, db.transactions[trans_id].book_id))

\* if for_username: None and the empty string are false in Python, and
\* the query then has no WHERE clause (lines 241, 246).
Unfiltered(for_username) == for_username \in {NULL, ""}

\* SELECT t.*, u.username AS username, b.title AS book_title
JoinedRow(db, t) ==
    [id |-> t,
     username |-> db.users[db.transactions[t].user_id].username,
     book_title |-> db.books[db.transactions[t].book_id].title] @@ db.transactions[t]

\* The rows of the query, as a set (ORDER BY t.issue_date DESC only
\* arranges them).  The inner JOINs drop a transaction whose user or book
\* row is gone.
list_transactions(db, for_username) ==
    {JoinedRow(db, t) : t \in
        {t \in DOMAIN db.transactions :
            /\ db.transactions[t].user_id \in DOMAIN db.users
            /\ db.transactions[t].book_id \in DOMAIN db.books
            /\ \/ Unfiltered(for_username)
               \/ db.users[db.transactions[t].user_id].username = for_username}}

\* --------------------------------------------------------- initialisation
\* CREATE TABLE IF NOT EXISTS on a store without tables (lines 23-65).
EmptyDB ==
    [users |-> <<>>, books |-> <<>>, members |-> <<>>, transactions |-> <<>>,
     seq |-> [users |-> 0, books |-> 0, members |-> 0, transactions |-> 0]]

\* Faulty variant: the INSERT of the default admin is missing.
ensure_adminSkipped(db) == db

\* SELECT * FROM users WHERE role='admin' LIMIT 1, and the INSERT of the
\* default admin when there is no such row (lines 81-86).
ensure_admin(db) ==
    IF \E u \in DOMAIN db.users : db.users[u].role = "admin"
    THEN db
    ELSE add_user(db, "admin", "admin", "admin").db

\* Database.__init__ (lines 14-21).  exists: os.path.exists(path); db: what
\* the file holds when it exists.  create_tables and migrate_schema leave a
\* store that has the tables and columns as it is; ensure_admin runs only
\* when the file did not exist (new_db).
Database_init(exists, db) ==
    LET new_db == ~exists
        opened == IF exists THEN db ELSE EmptyDB
    IN IF new_db THEN ensure_admin(opened) ELSE opened

\* ---------------------------------------------------------- state machine
\* The store after the call.
Store(db) ==
    /\ users' = db.users
    /\ books' = db.books
    /\ members' = db.members
    /\ transactions' = db.transactions
    /\ seq' = db.seq

\* The ids stay within the bounds of the model.
InBounds(db) ==
    /\ db.seq.users <= MaxUserId
    /\ db.seq.books <= MaxBookId
    /\ db.seq.members <= MaxMemberId
    /\ db.seq.transactions <= MaxTxId

\* The program starts on a store that did not exist.
Init ==
    LET db == Database_init(FALSE, EmptyDB) IN
    /\ users = db.users
    /\ books = db.books
    /\ members = db.members
    /\ transactions = db.transactions
    /\ seq = db.seq
    /\ mirror = <<>>
    /\ current_user = NoSession

AddUser(username, password, role) ==
    LET r == add_user(DB, username, password, role) IN
    /\ InBounds(r.db)
    /\ Store(r.db)
    /\ UNCHANGED <<mirror, current_user>>

AddBook(text, available) ==
    LET r == add_book(DB, text, available) IN
    /\ InBounds(r.db)
    /\ Store(r.db)
    /\ UNCHANGED <<mirror, current_user>>

UpdateBook(book_id, text, available) ==
    /\ Store(update_book(DB, book_id, text, available).db)
    /\ UNCHANGED <<mirror, current_user>>

DeleteBook(book_id) ==
    /\ Store(delete_book(DB, book_id).db)
    /\ UNCHANGED <<mirror, current_user>>

\* mirror remembers, for each member, the user account that add_member
\* created for it (line 156), or NoRow when add_user created none.
AddMember(profile, email, password) ==
    LET r == add_member(DB, profile, email, password) IN
    /\ InBounds(r.db)
    /\ Store(r.db)
    /\ mirror' = IF r.ok THEN With(mirror, r.lastrowid, r.user_id) ELSE mirror
    /\ UNCHANGED current_user

UpdateMember(member_id, profile, email, password) ==
    /\ Store(update_member(DB, member_id, profile, email, password).db)
    /\ UNCHANGED <<mirror, current_user>>

DeleteMember(member_id) ==
    LET r == delete_member(DB, member_id) IN
    /\ Store(r.db)
    /\ mirror' = IF r.ok THEN Without(mirror, {member_id}) ELSE mirror
    /\ UNCHANGED current_user

IssueBook(username, book_id, days, today) ==
    LET r == issue_book(DB, username, book_id, days, today) IN
    /\ InBounds(r.db)
    /\ Store(r.db)
    /\ UNCHANGED <<mirror, current_user>>

ReturnBook(trans_id, today) ==
    /\ Store(return_book(DB, trans_id, today).db)
    /\ UNCHANGED <<mirror, current_user>>

\* The program is closed and started again on the store it left.
Reopen ==
    /\ Store(Database_init(TRUE, DB))
    /\ UNCHANGED <<mirror, current_user>>

\* The counters stay under narrower bounds than the model's.
Capped(u, b, m, t) ==
    /\ seq'.users <= u
    /\ seq'.books <= b
    /\ seq'.members <= m
    /\ seq'.transactions <= t

\* Every call, on a store of up to LoanMembers members:
\* the book and loan arguments vary, the account arguments are kept to
\* two names, one password and one profile.
LoanCap == Capped(MaxUserId, MaxBookId, LoanMembers, MaxTxId)

Next ==
    \/ \E u \in LoanUsernames, r \in Roles : AddUser(u, "p", r) /\ LoanCap
    \/ \E x \in BookTexts, n \in Counts : AddBook(x, n) /\ LoanCap
    \/ \E b \in BookIds, x \in BookTexts, n \in Counts : UpdateBook(b, x, n)
    \/ \E b \in BookIds : DeleteBook(b)
    \/ \E e \in LoanUsernames : AddMember(Profile1, e, "p") /\ LoanCap
    \/ \E m \in MemberIds, e \in LoanUsernames : UpdateMember(m, Profile1, e, "p")
    \/ \E m \in MemberIds : DeleteMember(m)
    \/ \E u \in LoanUsernames, b \in BookIds, d \in Days :
          IssueBook(u, b, DEFAULT_ISSUE_DAYS, d) /\ LoanCap
    \/ \E t \in TxIds, d \in Days : ReturnBook(t, d)
    \/ Reopen

Spec == Init /\ [][Next]_vars

\* Every call, on a store of up to MemberBooks books and MemberTxs loans:
\* the account arguments vary, the book arguments are kept to one text and
\* one count.
MemberCap == Capped(MaxUserId, MemberBooks, MaxMemberId, MemberTxs)

NextMembers ==
    \/ \E u \in Usernames, p \in Passwords, r \in Roles : AddUser(u, p, r) /\ MemberCap
    \/ AddBook(BookText1, 1) /\ MemberCap
    \/ \E b \in BookIds : UpdateBook(b, BookText1, 1)
    \/ \E b \in BookIds : DeleteBook(b)
    \/ \E f \in Profiles, e \in Usernames, p \in Passwords : AddMember(f, e, p) /\ MemberCap
    \/ \E m \in MemberIds, f \in Profiles, e \in Usernames, p \in Passwords :
          UpdateMember(m, f, e, p)
    \/ \E m \in MemberIds : DeleteMember(m)
    \/ \E u \in Usernames, b \in BookIds :
          IssueBook(u, b, DEFAULT_ISSUE_DAYS, 1) /\ MemberCap
    \/ \E t \in TxIds : ReturnBook(t, 1)
    \/ Reopen

SpecMembers == Init /\ [][NextMembers]_vars

\* ----------------------------------------------------------- presentation
\* The pages are shown only after a login (line 298), and the login page
\* only when logged out (lines 283, 366).
LoggedIn == current_user.id # NoRow

\* self.app.current_user["role"] != "admin" is the test of the handlers.
IsAdmin == current_user.role = "admin"

\* The passwords typed into the login form.
LoginPasswords == {"admin", "p"}

\* LoginPage.on_login and LibraryApp.login (lines 294-300, 323-329).
Login(username, password) ==
    /\ ~LoggedIn
    /\ LET row == authenticate(DB, username, password) IN
       current_user' = IF row # NoRow
                       THEN [id |-> row, username |-> users[row].username,
                             role |-> users[row].role]
                       ELSE current_user
    /\ UNCHANGED <<tables, seq, mirror>>

\* HomePage.logout (lines 364-366).
Logout ==
    /\ LoggedIn
    /\ current_user' = NoSession
    /\ UNCHANGED <<tables, seq, mirror>>

\* The handlers of ManageBooksPage (lines 442-483) and ManageMembersPage
\* (lines 535-592) return at once unless the role is admin; a row to
\* update or delete is one selected in the page's list.
ManageBooksPage_add_book(text, available) ==
    /\ LoggedIn
    /\ IF ~IsAdmin THEN UNCHANGED vars ELSE AddBook(text, available)

ManageBooksPage_update_book(book_id, text, available) ==
    /\ LoggedIn
    /\ IF ~IsAdmin THEN UNCHANGED vars
       ELSE book_id \in DOMAIN books /\ UpdateBook(book_id, text, available)

ManageBooksPage_delete_book(book_id) ==
    /\ LoggedIn
    /\ IF ~IsAdmin THEN UNCHANGED vars
       ELSE book_id \in DOMAIN books /\ DeleteBook(book_id)

ManageMembersPage_add_member(profile, email, password) ==
    /\ LoggedIn
    /\ IF ~IsAdmin THEN UNCHANGED vars ELSE AddMember(profile, email, password)

ManageMembersPage_update_member(member_id, profile, email, password) ==
    /\ LoggedIn
    /\ IF ~IsAdmin THEN UNCHANGED vars
       ELSE member_id \in DOMAIN members
            /\ UpdateMember(member_id, profile, email, password)

ManageMembersPage_delete_member(member_id) ==
    /\ LoggedIn
    /\ IF ~IsAdmin THEN UNCHANGED vars
       ELSE member_id \in DOMAIN members /\ DeleteMember(member_id)

\* TransactionsPage.issue_book (lines 635-650) does not test the role.
TransactionsPage_issue_book(username, book_id, days, today) ==
    /\ LoggedIn
    /\ IssueBook(username, book_id, days, today)

\* The rows TransactionsPage.refresh lists (lines 622-633): all for the
\* admin, the session's own for another user.
TransactionsShown ==
    {row.id : row \in list_transactions(DB, IF IsAdmin THEN NULL
                                            ELSE current_user.username)}

\* TransactionsPage.return_selected (lines 652-662) returns the selected
\* row and does not test the role.
TransactionsPage_return_selected(tx_id, today) ==
    /\ LoggedIn
    /\ tx_id \in TransactionsShown
    /\ ReturnBook(tx_id, today)

\* The application, on a store of up to MemberBooks books, LoanMembers
\* members and MemberTxs loans.
SessionCap == Capped(MaxUserId, MemberBooks, LoanMembers, MemberTxs)

NextUI ==
    \/ \E u \in LoanUsernames, p \in LoginPasswords : Login(u, p)
    \/ Logout
    \/ \E n \in Counts : ManageBooksPage_add_book(BookText1, n) /\ SessionCap
    \/ \E b \in BookIds, n \in Counts : ManageBooksPage_update_book(b, BookText1, n)
    \/ \E b \in BookIds : ManageBooksPage_delete_book(b)
    \/ \E e \in LoanUsernames, p \in Passwords :
          ManageMembersPage_add_member(Profile1, e, p) /\ SessionCap
    \/ \E m \in MemberIds, e \in LoanUsernames, p \in Passwords :
          ManageMembersPage_update_member(m, Profile1, e, p)
    \/ \E m \in MemberIds : ManageMembersPage_delete_member(m)
    \/ \E u \in LoanUsernames, b \in BookIds :
          TransactionsPage_issue_book(u, b, DEFAULT_ISSUE_DAYS, 1) /\ SessionCap
    \/ \E t \in TxIds : TransactionsPage_return_selected(t, 1)

SpecUI == Init /\ [][NextUI]_vars

\* ================================================================= claims
UserNamed(username) == \E u \in DOMAIN users : users[u].username = username

Outstanding(t) == t \in DOMAIN transactions /\ transactions[t].returned = 0

\* C1: issue_book succeeds only when the book has available_count > 0; on
\* success that book's available_count is lower by exactly 1, no other book
\* changes, and exactly one Transaction row is new, with returned = 0, the
\* id of the named user and the id of the book; the old rows are as before.
C1_IssueSuccess ==
    \A u \in Usernames, b \in BookIds, d \in Days :
        LET r == issue_book(DB, u, b, DEFAULT_ISSUE_DAYS, d) IN
        r.ok =>
            /\ b \in DOMAIN books
            /\ books[b].available_count > 0
            /\ DOMAIN r.db.books = DOMAIN books
            /\ \A c \in DOMAIN books :
                  r.db.books[c] = IF c = b
                                  THEN [books[c] EXCEPT !.available_count = @ - 1]
                                  ELSE books[c]
            /\ \E t \in DOMAIN r.db.transactions \ DOMAIN transactions :
                  /\ DOMAIN r.db.transactions = DOMAIN transactions \cup {t}
                  /\ \A o \in DOMAIN transactions : r.db.transactions[o] = transactions[o]
                  /\ r.db.transactions[t].returned = 0
                  /\ r.db.transactions[t].book_id = b
                  /\ r.db.transactions[t].user_id \in DOMAIN users
                  /\ users[r.db.transactions[t].user_id].username = u

\* A loan is out, there are two books, and a further issue succeeds.
C1_Witness ==
    /\ \E t \in DOMAIN transactions : Outstanding(t)
    /\ Cardinality(DOMAIN books) = 2
    /\ \E u \in Usernames, b \in BookIds : issue_book(DB, u, b, DEFAULT_ISSUE_DAYS, 1).ok

\* C2: for an existing user and a book whose available_count is 0,
\* issue_book fails with "No copies available" and leaves the store as it was.
C2_NoCopiesFails ==
    \A u \in Usernames, b \in BookIds, d \in Days :
        (UserNamed(u) /\ b \in DOMAIN books /\ books[b].available_count = 0) =>
            LET r == issue_book(DB, u, b, DEFAULT_ISSUE_DAYS, d) IN
            /\ ~r.ok
            /\ ~r.raised
            /\ r.msg = "No copies available"
            /\ r.db = DB

\* The last copy of a book is on loan to a user who still exists.
C2_Witness ==
    \E t \in DOMAIN transactions :
        /\ Outstanding(t)
        /\ transactions[t].book_id \in DOMAIN books
        /\ books[transactions[t].book_id].available_count = 0
        /\ transactions[t].user_id \in DOMAIN users

\* C3: return_book succeeds only on an existing Transaction with
\* returned = 0; on success that row has returned = 1 and a return_date, no
\* other row of transactions changes, the available_count of its book is
\* higher by exactly 1 and no other book changes.
C3_ReturnSuccess ==
    \A t \in TxIds, d \in Days :
        LET r == return_book(DB, t, d) IN
        r.ok =>
            /\ t \in DOMAIN transactions
            /\ transactions[t].returned = 0
            /\ DOMAIN r.db.transactions = DOMAIN transactions
            /\ r.db.transactions[t].returned = 1
            /\ r.db.transactions[t].return_date # NullDate
            /\ \A o \in DOMAIN transactions \ {t} : r.db.transactions[o] = transactions[o]
            /\ transactions[t].book_id \in DOMAIN books
            /\ DOMAIN r.db.books = DOMAIN books
            /\ \A c \in DOMAIN books :
                  r.db.books[c] = IF c = transactions[t].book_id
                                  THEN [books[c] EXCEPT !.available_count = @ + 1]
                                  ELSE books[c]

\* One loan has been returned and another is still out, with two books.
C3_Witness ==
    /\ \E t \in DOMAIN transactions : transactions[t].returned = 1
    /\ \E t \in DOMAIN transactions : Outstanding(t)
    /\ Cardinality(DOMAIN books) = 2

\* C4: a successful issue_book followed at once by return_book on the
\* Transaction it created succeeds and leaves the book's available_count at
\* its value before the issue.
C4_IssueReturnRoundTrip ==
    \A u \in Usernames, b \in BookIds, d \in Days, e \in Days :
        LET r == issue_book(DB, u, b, DEFAULT_ISSUE_DAYS, d) IN
        r.ok =>
            LET q == return_book(r.db, r.lastrowid, e) IN
            /\ q.ok
            /\ q.db.books[b].available_count = books[b].available_count

\* A loan of a book has been returned, and the book can be issued again.
C4_Witness ==
    \E t \in DOMAIN transactions, u \in Usernames :
        /\ transactions[t].returned = 1
        /\ issue_book(DB, u, transactions[t].book_id, DEFAULT_ISSUE_DAYS, 1).ok

\* C5: delete_book fails and changes no row while a Transaction with
\* returned = 0 refers to the book; and every Transaction with returned = 0
\* refers to a book that exists.
C5_DeleteBookGuard ==
    /\ \A b \in BookIds :
          (\E t \in DOMAIN transactions : Outstanding(t) /\ transactions[t].book_id = b) =>
              LET r == delete_book(DB, b) IN ~r.ok /\ r.db = DB
    /\ \A t \in DOMAIN transactions :
          Outstanding(t) => transactions[t].book_id \in DOMAIN books

\* A book is on loan while a book that was lent and returned has been deleted.
C5_Witness ==
    /\ \E t \in DOMAIN transactions : Outstanding(t)
    /\ \E t \in DOMAIN transactions :
          transactions[t].returned = 1 /\ transactions[t].book_id \notin DOMAIN books

\* The user account add_member created for member m still exists.
HasMirror(m) == m \in DOMAIN mirror /\ mirror[m] \in DOMAIN users

\* C6: while the user account created for a member has a Transaction with
\* returned = 0, delete_member on the member changes no row and no call
\* removes the Member row.
C6_DeleteMemberGuard ==
    [][\A m \in DOMAIN members :
          (/\ HasMirror(m)
           /\ \E t \in DOMAIN transactions :
                 Outstanding(t) /\ transactions[t].user_id = mirror[m]) =>
              /\ DeleteMember(m) => UNCHANGED tables
              /\ m \in DOMAIN members']_vars

C8_AllOrNothing ==
    [][\A f \in Profiles, e \in Usernames, p \in Passwords :
          /\ (AddMember(f, e, p) /\ ~add_member(DB, f, e, p).user_ok) => UNCHANGED tables
          /\ \A m \in MemberIds :
                (UpdateMember(m, f, e, p) /\ update_member(DB, m, f, e, p).raised)
                    => UNCHANGED tables]_vars

\* C9: when add_member returns success, a User row that did not exist
\* before the call has username = email, the given password and role user.
C9_AddMemberCreatesUser ==
    [][\A f \in Profiles, e \in Usernames, p \in Passwords :
          (AddMember(f, e, p) /\ add_member(DB, f, e, p).ok) =>
              \E u \in DOMAIN users' \ DOMAIN users :
                  users'[u] = [username |-> e, password |-> p, role |-> "user"]]_vars

\* C10: of two add_member calls with the same email, made one after the
\* other, the second fails with a conflict, and afterwards exactly one
\* Member and exactly one User have the email, with the name, password,
\* type and expiry of the first call.
C10_SecondAddMemberConflict ==
    [][\A f \in Profiles, e \in Usernames, p \in Passwords :
          (AddMember(f, e, p) /\ add_member(DB, f, e, p).ok) =>
              \A g \in Profiles, q \in Passwords :
                  LET s == add_member(DB', g, e, q) IN
                  /\ ~s.ok
                  /\ s.msg = "Member email already exists"
                  /\ \E m \in DOMAIN s.db.members :
                        /\ s.db.members[m] = MemberRow(f, e, p)
                        /\ \A n \in DOMAIN s.db.members :
                              s.db.members[n].email = e => n = m
                  /\ \E u \in DOMAIN s.db.users :
                        /\ s.db.users[u].username = e
                        /\ s.db.users[u].password = p
                        /\ \A v \in DOMAIN s.db.users :
                              s.db.users[v].username = e => v = u]_vars

\* C11: after update_member has changed a Member's email to a different
\* one, with the Member's password as it was, authenticate with the new
\* email and the password returns a user, and authenticate with the old
\* email and the password returns none.
C11_EmailChangeMovesLogin ==
    [][\A m \in DOMAIN members, f \in Profiles, e \in Usernames :
          (/\ UpdateMember(m, f, e, members[m].password)
           /\ members[m].email # e
           /\ members'[m].email = e) =>
              /\ authenticate(DB', e, members[m].password) # NoRow
              /\ authenticate(DB', members[m].email, members[m].password) = NoRow]_vars

\* C12: exactly one User row has role admin.
C12_ExactlyOneAdmin ==
    Cardinality({u \in DOMAIN users : users[u].role = "admin"}) = 1

\* C13: Database.__init__ on a store that does not exist leaves exactly one
\* User row, with username "admin", password "admin" and role admin, so
\* that authenticate("admin", "admin") finds it, and leaves the books,
\* members and transactions tables empty.
C13_FreshStore ==
    LET db == Database_init(FALSE, DB) IN
    /\ Cardinality(DOMAIN db.users) = 1
    /\ \A u \in DOMAIN db.users :
          db.users[u] = [username |-> "admin", password |-> "admin", role |-> "admin"]
    /\ authenticate(db, "admin", "admin") \in DOMAIN db.users
    /\ DOMAIN db.books = {}
    /\ DOMAIN db.members = {}
    /\ DOMAIN db.transactions = {}

\* The store is as the initialisation of a fresh store leaves it.
C13_Witness == DB = Database_init(FALSE, DB)

\* C14: after Database.__init__, on a fresh store or on an existing one,
\* an admin row exists: the default admin is inserted when there was none,
\* and when there was one the users table is as before.
C14_InitEnsuresAdmin ==
    \A exists \in BOOLEAN :
        LET before == IF exists THEN DB ELSE EmptyDB
            db == Database_init(exists, DB)
        IN /\ \E u \in DOMAIN db.users : db.users[u].role = "admin"
           /\ IF \E u \in DOMAIN before.users : before.users[u].role = "admin"
              THEN db.users = before.users
              ELSE \E u \in DOMAIN db.users \ DOMAIN before.users :
                      /\ db.users[u] = [username |-> "admin", password |-> "admin",
                                        role |-> "admin"]
                      /\ DOMAIN db.users = DOMAIN before.users \cup {u}
                      /\ \A v \in DOMAIN before.users : db.users[v] = before.users[v]

\* The call returned a failure with a reason, and the four tables of the
\* store it left are those of the store before it.
FailedClean(r) ==
    (~r.ok /\ ~r.raised) =>
        /\ r.msg # NULL
        /\ r.db.users = users
        /\ r.db.books = books
        /\ r.db.members = members
        /\ r.db.transactions = transactions

\* C15: when add_user, add_member, update_member, delete_book,
\* delete_member, issue_book or return_book returns a failure with a
\* reason, the four tables are as they were before the call.
C15_FailureChangesNothing ==
    /\ \A u \in Usernames, p \in Passwords, r \in Roles : FailedClean(add_user(DB, u, p, r))
    /\ \A f \in Profiles, e \in Usernames, p \in Passwords :
          /\ FailedClean(add_member(DB, f, e, p))
          /\ \A m \in MemberIds : FailedClean(update_member(DB, m, f, e, p))
    /\ \A b \in BookIds : FailedClean(delete_book(DB, b))
    /\ \A m \in MemberIds : FailedClean(delete_member(DB, m))
    /\ \A u \in Usernames, b \in BookIds, d \in Days :
          FailedClean(issue_book(DB, u, b, DEFAULT_ISSUE_DAYS, d))
    /\ \A t \in TxIds, d \in Days : FailedClean(return_book(DB, t, d))

\* Two members and a loan of the only copy: a call of each kind fails.
C15_Witness ==
    /\ \E u \in Usernames : ~add_user(DB, u, "p", "user").ok
    /\ \E e \in Usernames : ~add_member(DB, Profile1, e, "p").ok
    /\ \E m \in MemberIds, e \in Usernames :
          LET r == update_member(DB, m, Profile1, e, "p") IN ~r.ok /\ ~r.raised
    /\ \E b \in BookIds : ~delete_book(DB, b).ok
    /\ \E m \in MemberIds : ~delete_member(DB, m).ok
    /\ \E u \in Usernames, b \in BookIds :
          issue_book(DB, u, b, DEFAULT_ISSUE_DAYS, 1).msg = "No copies available"
    /\ \E t \in TxIds : ~return_book(DB, t, 1).ok

\* C16: no call removes a Transaction row or changes its user_id, book_id,
\* issue_date or due_date, and its returned flag stays or goes from 0 to 1.
C16_TransactionsKept ==
    [][\A t \in DOMAIN transactions :
          /\ t \in DOMAIN transactions'
          /\ transactions'[t].user_id = transactions[t].user_id
          /\ transactions'[t].book_id = transactions[t].book_id
          /\ transactions'[t].issue_date = transactions[t].issue_date
          /\ transactions'[t].due_date = transactions[t].due_date
          /\ \/ transactions'[t].returned = transactions[t].returned
             \/ transactions[t].returned = 0 /\ transactions'[t].returned = 1]_vars

\* A returned loan whose member and book have both been deleted since.
C16_Witness ==
    \E t \in DOMAIN transactions :
        /\ transactions[t].returned = 1
        /\ transactions[t].user_id \notin DOMAIN users
        /\ transactions[t].book_id \notin DOMAIN books

\* C17: for every value X passed as for_username, also one that names no
\* user, every row of list_transactions(for_username=X) has username X, and
\* there is no row when no loan is X's.
C17_FilterByUsername ==
    \A X \in ForUsernames :
        /\ \A row \in list_transactions(DB, X) : row.username = X
        /\ (\A t \in DOMAIN transactions :
                transactions[t].user_id \in DOMAIN users =>
                    users[transactions[t].user_id].username # X)
              => list_transactions(DB, X) = {}

\* C18: issue_book fails with "User not found" when no User has the
\* username, whether or not the book exists; otherwise with "Book not
\* found" when no Book has the id; otherwise with "No copies available"
\* when available_count is not positive; and it changes nothing in these
\* cases.  So from any store: add_book with 1 copy, issue to a name no user
\* has fails, add_member with that name, issue succeeds and the count is 0,
\* issue again fails, return succeeds and the count is 1.
C18_IssueFailures ==
    /\ \A u \in Usernames, b \in BookIds, d \in Days :
          LET r == issue_book(DB, u, b, DEFAULT_ISSUE_DAYS, d)
              expected == IF ~UserNamed(u) THEN "User not found"
                          ELSE IF b \notin DOMAIN books THEN "Book not found"
                          ELSE IF books[b].available_count <= 0 THEN "No copies available"
                          ELSE NULL
          IN IF expected = NULL
             THEN r.ok
             ELSE ~r.ok /\ ~r.raised /\ r.msg = expected /\ r.db = DB
    /\ \A x \in BookTexts, f \in Profiles, e \in Usernames, p \in Passwords, d \in Days :
          ~UserNamed(e) =>
              LET s1 == add_book(DB, x, 1)
                  b == s1.lastrowid
                  i1 == issue_book(s1.db, e, b, DEFAULT_ISSUE_DAYS, d)
                  s2 == add_member(i1.db, f, e, p)
                  i2 == issue_book(s2.db, e, b, DEFAULT_ISSUE_DAYS, d)
                  i3 == issue_book(i2.db, e, b, DEFAULT_ISSUE_DAYS, d)
                  r1 == return_book(i3.db, i2.lastrowid, d)
              IN /\ ~i1.ok /\ i1.msg = "User not found" /\ i1.db = s1.db
                 /\ s2.ok
                 /\ i2.ok /\ i2.db.books[b].available_count = 0
                 /\ ~i3.ok /\ i3.msg = "No copies available" /\ i3.db = i2.db
                 /\ r1.ok /\ r1.db.books[b].available_count = 1

\* A store with a member's account, a book without copies and a deleted
\* book, where each of the three failures can happen.
C18_Witness ==
    /\ \E u \in Usernames : u # "admin" /\ UserNamed(u)
    /\ \E u \in Usernames : ~UserNamed(u)
    /\ \E b \in DOMAIN books : books[b].available_count = 0
    /\ \E b \in BookIds : b \notin DOMAIN books /\ b <= seq.books

\* C19: return_book fails with "Transaction not found" on an id no
\* Transaction has and with "Already returned" on a returned Transaction,
\* and changes no row in either case; so a second return_book on the same
\* Transaction, on a later day, raises no count and keeps the return_date.
C19_ReturnFailures ==
    \A t \in TxIds, d \in Days :
        LET r == return_book(DB, t, d) IN
        /\ t \notin DOMAIN transactions =>
              ~r.ok /\ ~r.raised /\ r.msg = "Transaction not found" /\ r.db = DB
        /\ (t \in DOMAIN transactions /\ transactions[t].returned = 1) =>
              ~r.ok /\ ~r.raised /\ r.msg = "Already returned" /\ r.db = DB
        /\ r.ok =>
              LET q == return_book(r.db, t, d + 1) IN
              /\ ~q.ok /\ q.msg = "Already returned" /\ q.db = r.db
              /\ q.db.transactions[t].return_date = d

\* A loan has been returned, its book has a copy, and an id has no
\* Transaction.
C19_Witness ==
    /\ \E t \in DOMAIN transactions : transactions[t].returned = 1
    /\ \E t \in TxIds : t \notin DOMAIN transactions
    /\ \E b \in DOMAIN books : books[b].available_count > 0

C21_CountsNonNegative ==
    \A b \in DOMAIN books : books[b].available_count >= 0

\* Two loans of one book are out and it has no copy left: update_book set
\* the count again after the first loan.
C21_Witness ==
    \E t, o \in DOMAIN transactions :
        /\ t # o
        /\ Outstanding(t) /\ Outstanding(o)
        /\ transactions[t].book_id = transactions[o].book_id
        /\ transactions[t].book_id \in DOMAIN books
        /\ books[transactions[t].book_id].available_count = 0

\* C22: while the session's role is not admin, no handler of the
\* presentation layer calls a method that changes the tables.
C22_OnlyAdminMutates ==
    [][(LoggedIn /\ ~IsAdmin) => UNCHANGED tables]_vars

\* The characters of term appear in text, in order and side by side, in
\* the same case.
Substring(term, text) ==
    \E i \in 0..(Len(text) - Len(term)) :
        \A k \in 1..Len(term) : text[i + k] = term[k]

\* C23: list_books with a non-empty search term returns exactly the books
\* that have the term as a case-sensitive substring of the title, the
\* author or the genre, and list_books without a term returns all books.
C23_SearchIsSubstring ==
    \A search \in SearchTerms :
        {row.id : row \in list_books(DB, search)} =
            IF search \in {NULL, ""}
            THEN DOMAIN books
            ELSE {b \in DOMAIN books :
                     \/ Substring(Chars(search), Chars(books[b].title))
                     \/ Substring(Chars(search), Chars(books[b].author))
                     \/ Substring(Chars(search), Chars(books[b].genre))}

\* The copies of book b in store db: those on the shelf and those on loan.
Copies(db, b) ==
    db.books[b].available_count
    + Cardinality({t \in DOMAIN db.transactions :
                      db.transactions[t].book_id = b /\ db.transactions[t].returned = 0})

\* C24: an issue_book or return_book call, successful or failed, for any
\* user, leaves for every book the sum of its available_count and the
\* number of its Transactions with returned = 0 as it was; so does every
\* sequence of such calls.
C24_CopyConservation ==
    /\ \A u \in Usernames, c \in BookIds, d \in Days :
          LET r == issue_book(DB, u, c, DEFAULT_ISSUE_DAYS, d) IN
          /\ DOMAIN r.db.books = DOMAIN books
          /\ \A b \in DOMAIN books : Copies(r.db, b) = Copies(DB, b)
          /\ \A t \in TxIds, e \in Days :
                LET q == return_book(r.db, t, e) IN
                /\ DOMAIN q.db.books = DOMAIN books
                /\ \A b \in DOMAIN books : Copies(q.db, b) = Copies(DB, b)
    /\ \A t \in TxIds, d \in Days :
          LET r == return_book(DB, t, d) IN
          /\ DOMAIN r.db.books = DOMAIN books
          /\ \A b \in DOMAIN books : Copies(r.db, b) = Copies(DB, b)

\* Two books, one with a loan out and one whose loan has been returned.
C24_Witness ==
    \E t, o \in DOMAIN transactions :
        /\ Outstanding(t)
        /\ transactions[o].returned = 1
        /\ transactions[t].book_id # transactions[o].book_id
        /\ transactions[o].book_id \in DOMAIN books

\* The call is one of the member operations.
MemberOperation ==
    \E f \in Profiles, e \in Usernames, p \in Passwords :
        \/ AddMember(f, e, p)
        \/ \E m \in MemberIds : UpdateMember(m, f, e, p) \/ DeleteMember(m)

\* C25: no add_member, update_member or delete_member call deletes a User
\* row with role admin or changes its username or password.
C25_AdminUntouched ==
    [][MemberOperation =>
          \A u \in DOMAIN users :
              users[u].role = "admin" =>
                  /\ u \in DOMAIN users'
                  /\ users'[u].username = users[u].username
                  /\ users'[u].password = users[u].password]_vars

\* C26: update_member changes at most the Member row with the id and the
\* User row named like that Member's email before the call; with an id no
\* Member has it changes none of the four tables.
C26_UpdateMemberFrame ==
    [][\A m \in MemberIds, f \in Profiles, e \in Usernames, p \in Passwords :
          UpdateMember(m, f, e, p) =>
              /\ books' = books
              /\ transactions' = transactions
              /\ DOMAIN members' = DOMAIN members
              /\ DOMAIN users' = DOMAIN users
              /\ \A n \in DOMAIN members \ {m} : members'[n] = members[n]
              /\ \A u \in DOMAIN users :
                    (m \in DOMAIN members => users[u].username # members[m].email)
                        => users'[u] = users[u]]_vars

\* C27: every Transaction's user_id is the id of a User and its book_id
\* the id of a Book, and list_transactions() without a filter has one row
\* for every Transaction ever created.
C27_ReferentialIntegrity ==
    /\ \A t \in DOMAIN transactions :
          /\ transactions[t].user_id \in DOMAIN users
          /\ transactions[t].book_id \in DOMAIN books
    /\ {row.id : row \in list_transactions(DB, NULL)} = 1..seq.transactions
====
